---- MODULE Spec2Model ----
(***************************************************************************)
(* Model of the two command-line tools of the repository:                  *)
(*   contextllm (the Concatenator, src/try/contextllm.py) and              *)
(*   listllm    (the Lister,       src/try/listllm.py).                    *)
(*                                                                         *)
(* Text is modelled as a sequence of one-character strings, so that        *)
(* newline handling, trimming, header layout, substring tests and          *)
(* lexicographic sorting are computed and not assumed.                     *)
(***************************************************************************)
EXTENDS Integers, Sequences, FiniteSets, TLC

VARIABLES
    tool,        \* "cat" (contextllm) or "list" (listllm): which program runs
    pc,          \* position of the running main()
    exitCode,    \* value returned by main() (-1 while running)
    run,         \* number of the current invocation (1 = first)
    stderr,      \* the warnings and errors printed to standard error
    \* ---- contextllm ----
    fileList,    \* args.file_list: [given, found, text]
    argFiles,    \* args.files: sequence of paths / patterns
    addHeaders,  \* not args.no_headers
    fs,          \* the filesystem: path -> [kind, text]
    fs0,         \* the filesystem when the current invocation started
    cands,       \* files_to_concatenate after de-duplication
    existing,    \* existing_files
    idx,         \* position of the for loop of concatenate_files
    written,     \* everything written to the handle `out` so far
    reads,       \* what read_file_content returned, per loop iteration
    prevOut,     \* the output file as the previous invocation left it
    \* ---- listllm ----
    dirValid,    \* os.path.isdir(args.directory)
    recursive,   \* args.recursive
    includeHidden, \* args.include_hidden
    exclude,     \* args.exclude: sequence of substrings
    tree,        \* entries below args.directory (without the output file)
    outArg,      \* args.output: "none", "inside" (in the directory), "outside"
    outFile,     \* the file args.output names: [kind, text]
    listed,      \* the list list_files returned
    stdout       \* the paths printed to standard output

catVars  == <<fileList, argFiles, addHeaders, fs, fs0, cands, existing, idx,
              written, reads, prevOut>>
listVars == <<dirValid, recursive, includeHidden, exclude, tree, outArg,
              outFile, listed, stdout>>
vars     == <<tool, pc, exitCode, run, stderr, catVars, listVars>>

----------------------------------------------------------------------------
(* Bounds of the explored inputs *)
MaxArgs     == 2   \* number of positional arguments of contextllm
MaxListLen  == 3   \* number of characters of the list file
MaxRuns     == 2   \* successive invocations with the same arguments
MaxExclude  == 1   \* number of --exclude substrings

----------------------------------------------------------------------------
(* Text helpers: the Python str operations the programs use *)

NL == "\n"

Rep(c, n) == [i \in 1..n |-> c]

RECURSIVE Flatten(_)
Flatten(ss) == IF ss = <<>> THEN <<>> ELSE Head(ss) \o Flatten(Tail(ss))

StartsWith(s, p) ==
    /\ Len(p) <= Len(s)
    /\ SubSeq(s, 1, Len(p)) = p

EndsWith(s, p) ==
    /\ Len(p) <= Len(s)
    /\ SubSeq(s, Len(s) - Len(p) + 1, Len(s)) = p

\* `p in s` for strings
Contains(s, p) ==
    \E i \in 1..(Len(s) - Len(p) + 1) : SubSeq(s, i, i + Len(p) - 1) = p

IsSpace(c) == c \in {" ", "\t", "\n", "\r"}

RECURSIVE LStrip(_)
LStrip(s) == IF s # <<>> /\ IsSpace(Head(s)) THEN LStrip(Tail(s)) ELSE s

RECURSIVE RStrip(_)
RStrip(s) ==
    IF s # <<>> /\ IsSpace(s[Len(s)]) THEN RStrip(SubSeq(s, 1, Len(s) - 1)) ELSE s

\* str.strip()
Strip(s) == RStrip(LStrip(s))

\* iteration over a text file: the lines, each with its terminating newline
\* (the last one may have none)
RECURSIVE FileLines(_, _)
FileLines(text, cur) ==
    IF text = <<>> THEN (IF cur = <<>> THEN <<>> ELSE <<cur>>)
    ELSE IF Head(text) = NL THEN <<Append(cur, NL)>> \o FileLines(Tail(text), <<>>)
    ELSE FileLines(Tail(text), Append(cur, Head(text)))

\* code point of a character (for string comparison)
Ord(c) ==
    CASE c = "\n" -> 10 [] c = " " -> 32 [] c = "#" -> 35 [] c = "*" -> 42
      [] c = "-" -> 45 [] c = "." -> 46 [] c = "/" -> 47 [] c = ":" -> 58
      [] c = "=" -> 61 [] c = "?" -> 63 [] c = "E" -> 69 [] c = "F" -> 70
      [] c = "I" -> 73 [] c = "L" -> 76 [] c = "[" -> 91 [] c = "a" -> 97
      [] c = "b" -> 98 [] c = "c" -> 99 [] c = "g" -> 103 [] c = "h" -> 104
      [] c = "o" -> 111 [] c = "s" -> 115 [] c = "t" -> 116 [] c = "w" -> 119
      [] OTHER -> 127

\* s < t for strings
RECURSIVE StrLess(_, _)
StrLess(s, t) ==
    IF t = <<>> THEN FALSE
    ELSE IF s = <<>> THEN TRUE
    ELSE IF Ord(Head(s)) # Ord(Head(t)) THEN Ord(Head(s)) < Ord(Head(t))
    ELSE StrLess(Tail(s), Tail(t))

RECURSIVE InsertSorted(_, _)
InsertSorted(x, ss) ==
    IF ss = <<>> THEN <<x>>
    ELSE IF StrLess(Head(ss), x) \/ Head(ss) = x
         THEN <<Head(ss)>> \o InsertSorted(x, Tail(ss))
         ELSE <<x>> \o ss

\* sorted(list of str)
RECURSIVE Sorted(_)
Sorted(ss) == IF ss = <<>> THEN <<>> ELSE InsertSorted(Head(ss), Sorted(Tail(ss)))

Range(s) == {s[i] : i \in 1..Len(s)}

SeqsUpTo(S, n) == UNION {[1..k -> S] : k \in 0..n}

----------------------------------------------------------------------------
(* The filesystem contextllm sees *)

NoFile     == [kind |-> "none",   text |-> <<>>]
Dir        == [kind |-> "dir",    text |-> <<>>]
Binary     == [kind |-> "binary", text |-> <<"~">>]  \* a file that is not UTF-8
Denied     == [kind |-> "denied", text |-> <<"h">>]  \* a file open() refuses
TextFile(t) == [kind |-> "text", text |-> t]

PathA == <<"a">>
PathB == <<"b", "c">>

\* args.output
output == <<"o">>

Paths == {PathA, PathB, output}

\* the order in which the directory hands out its entries
CatDirOrder == <<output, PathB, PathA>>

\* os.path.isfile
IsFile(f, p) == p \in DOMAIN f /\ f[p].kind \in {"text", "binary", "denied"}

Exists(f, p) == p \in DOMAIN f /\ f[p].kind # "none"

----------------------------------------------------------------------------
(* contextllm: the functions *)

\* (variant) every input is read as it was before the output was opened
ReadFileContentAtStart(f, p) ==
    IF fs0[p].kind = "text" THEN [ok |-> TRUE, text |-> fs0[p].text]
    ELSE [ok |-> FALSE, text |-> <<>>]

\* read_file_content: the text, or None ([ok |-> FALSE]) when the file cannot
\* be decoded or read
ReadFileContent(f, p) ==
    IF f[p].kind = "text" THEN [ok |-> TRUE, text |-> f[p].text]
    ELSE [ok |-> FALSE, text |-> <<>>]

SepWidth == 80

\* separator = f"\n{'=' * 80}\n"
Separator == <<NL>> \o Rep("=", SepWidth) \o <<NL>>

\* (variant) the underline is as long as the path only
HeaderShortUnderline(file) ==
    <<"F", "I", "L", "E", ":", " ">> \o file \o <<NL>>
        \o Rep("-", Len(file)) \o <<NL>>

\* header = f"FILE: {file}\n{'-' * (len(file) + 6)}\n"
Header(file) ==
    <<"F", "I", "L", "E", ":", " ">> \o file \o <<NL>>
        \o Rep("-", Len(file) + 6) \o <<NL>>

\* the header block written before a file's content when add_headers is set
HeaderBlock(file, hdr) == IF hdr THEN Separator \o Header(file) ELSE <<>>

\* (variant) the content is written as it is
ContentOutVerbatim(content) == content

\* the content, and a newline if the content is non-empty and lacks one
ContentOut(content) ==
    content \o (IF content # <<>> /\ ~EndsWith(content, <<NL>>) THEN <<NL>> ELSE <<>>)

\* (variant) the header block is written before the read is looked at
ChunkHeaderFirst(file, rd, hdr) ==
    HeaderBlock(file, hdr) \o (IF rd.ok THEN ContentOut(rd.text) ELSE <<>>)

\* what one iteration of the loop of concatenate_files writes for a file whose
\* read gave `rd`
Chunk(file, rd, hdr) ==
    IF rd.ok THEN HeaderBlock(file, hdr) \o ContentOut(rd.text) ELSE <<>>

\* '*' in pattern or '?' in pattern or '[' in pattern
HasWildcard(p) == "*" \in Range(p) \/ "?" \in Range(p) \/ "[" \in Range(p)

\* fnmatch of a name against a pattern of literals, '*' and '?'
RECURSIVE GlobMatch(_, _)
GlobMatch(pat, name) ==
    IF pat = <<>> THEN name = <<>>
    ELSE IF Head(pat) = "*"
         THEN GlobMatch(Tail(pat), name)
              \/ (name # <<>> /\ GlobMatch(pat, Tail(name)))
    ELSE IF name = <<>> THEN FALSE
    ELSE IF Head(pat) = "?" THEN GlobMatch(Tail(pat), Tail(name))
    ELSE Head(pat) = Head(name) /\ GlobMatch(Tail(pat), Tail(name))

\* glob.glob(pattern): the existing entries the pattern matches
Glob(f, pattern) ==
    LET Hit(name) == Exists(f, name) /\ GlobMatch(pattern, name)
    IN  SelectSeq(CatDirOrder, Hit)

\* expand_file_patterns
RECURSIVE ExpandFilePatterns(_, _)
ExpandFilePatterns(f, patterns) ==
    IF patterns = <<>> THEN <<>>
    ELSE (IF HasWildcard(Head(patterns)) THEN Glob(f, Head(patterns))
          ELSE <<Head(patterns)>>)
         \o ExpandFilePatterns(f, Tail(patterns))

\* a line on standard error
Msg(level, what, path) == [level |-> level, what |-> what, path |-> path]

\* expand_file_patterns, line 59: the warnings for patterns without a match
RECURSIVE ExpandWarnings(_, _)
ExpandWarnings(f, patterns) ==
    IF patterns = <<>> THEN <<>>
    ELSE (IF HasWildcard(Head(patterns)) /\ Glob(f, Head(patterns)) = <<>>
          THEN <<Msg("warning", "no files match pattern", Head(patterns))>>
          ELSE <<>>)
         \o ExpandWarnings(f, Tail(patterns))

\* main, the loop over the list file: stripped lines, without the empty ones
\* and the ones that start with '#'
RECURSIVE ListFileLoop(_)
ListFileLoop(lines) ==
    IF lines = <<>> THEN <<>>
    ELSE LET stripped_line == Strip(Head(lines))
         IN  (IF stripped_line = <<>> THEN <<>>
              ELSE IF StartsWith(stripped_line, <<"#">>) THEN <<>>
              ELSE <<stripped_line>>)
             \o ListFileLoop(Tail(lines))

ListFilePaths(text) == ListFileLoop(FileLines(text, <<>>))

\* main, "Remove duplicates while preserving order"
RECURSIVE DedupLoop(_, _, _)
DedupLoop(rest, seen, unique) ==
    IF rest = <<>> THEN unique
    ELSE IF Head(rest) \in seen THEN DedupLoop(Tail(rest), seen, unique)
    ELSE DedupLoop(Tail(rest), seen \cup {Head(rest)}, Append(unique, Head(rest)))

\* (variant) of two equal paths the later one is kept
RECURSIVE DedupKeepLast(_)
DedupKeepLast(files) ==
    IF files = <<>> THEN <<>>
    ELSE IF Head(files) \in Range(Tail(files)) THEN DedupKeepLast(Tail(files))
    ELSE <<Head(files)>> \o DedupKeepLast(Tail(files))

Dedup(files) == DedupLoop(files, {}, <<>>)

\* files_to_concatenate before de-duplication
Collected(fl, af, f) ==
    (IF fl.given THEN ListFilePaths(fl.text) ELSE <<>>) \o ExpandFilePatterns(f, af)

\* (variant) the filter tests os.path.exists
ExistingFilesAnyKind(f, files) ==
    LET Keep(p) == Exists(f, p) IN SelectSeq(files, Keep)

\* main, "Check if files exist and filter out non-existent ones"
ExistingFiles(f, files) ==
    LET Keep(p) == IsFile(f, p) IN SelectSeq(files, Keep)

----------------------------------------------------------------------------
(* contextllm: main() step by step *)

Finish(code) ==
    /\ pc' = "done"
    /\ exitCode' = code

\* main, line 150: one warning for each path that is no regular file
RECURSIVE MissingWarnings(_, _)
MissingWarnings(f, files) ==
    IF files = <<>> THEN <<>>
    ELSE (IF IsFile(f, Head(files)) THEN <<>>
          ELSE <<Msg("warning", "does not exist, skipping", Head(files))>>)
         \o MissingWarnings(f, Tail(files))

\* read_file_content, lines 14-19: what a failed read prints
ReadMessages(f, p) ==
    IF f[p].kind = "binary" THEN <<Msg("warning", "not a text file", p)>>
    ELSE IF f[p].kind = "denied" THEN <<Msg("error", "reading", p)>>
    ELSE <<>>

\* main, lines 96-142: list file, command line, emptiness check, duplicates
Resolve ==
    /\ tool = "cat" /\ pc = "start"
    /\ IF fileList.given /\ ~fileList.found
       THEN /\ Finish(1)
            /\ stderr' = Append(stderr, Msg("error", "file list not found", <<>>))
            /\ UNCHANGED cands
       ELSE LET files == Collected(fileList, argFiles, fs)
                warn  == stderr \o ExpandWarnings(fs, argFiles)
            IN  IF files = <<>>
                THEN /\ Finish(1)
                     /\ stderr' = Append(warn, Msg("error", "no files specified", <<>>))
                     /\ UNCHANGED cands
                ELSE /\ cands' = Dedup(files)
                     /\ stderr' = warn
                     /\ pc' = "filter"
                     /\ UNCHANGED exitCode
    /\ UNCHANGED <<tool, run, fileList, argFiles, addHeaders, fs, fs0, existing,
                   idx, written, reads, prevOut, listVars>>

\* main, lines 144-154: the existence filter
Filter ==
    /\ tool = "cat" /\ pc = "filter"
    /\ existing' = ExistingFiles(fs, cands)
    /\ IF existing' = <<>>
       THEN /\ Finish(1)
            /\ stderr' = Append(stderr \o MissingWarnings(fs, cands),
                                 Msg("error", "no valid files to concatenate", <<>>))
       ELSE /\ pc' = "open"
            /\ stderr' = stderr \o MissingWarnings(fs, cands)
            /\ UNCHANGED exitCode
    /\ UNCHANGED <<tool, run, fileList, argFiles, addHeaders, fs, fs0, cands,
                   idx, written, reads, prevOut, listVars>>

\* (variant) the output is opened in append mode
OpenOutputAppend ==
    /\ tool = "cat" /\ pc = "open"
    /\ IF fs[output].kind = "dir"
       THEN /\ pc' = "done" /\ exitCode' = 1
            /\ UNCHANGED <<fs, idx, written, stderr>>
       ELSE /\ fs' = [fs EXCEPT ![output] = TextFile(fs[output].text)]
            /\ written' = fs[output].text
            /\ idx' = 1
            /\ pc' = "loop"
            /\ UNCHANGED <<exitCode, stderr>>
    /\ UNCHANGED <<tool, run, fileList, argFiles, addHeaders, fs0, cands,
                   existing, reads, prevOut, listVars>>

\* concatenate_files, line 24: open(output_file, "w") truncates the file; a
\* path that cannot be opened for writing raises, and the function returns False
OpenOutput ==
    /\ tool = "cat" /\ pc = "open"
    /\ IF fs[output].kind = "dir"
       THEN /\ Finish(1)
            /\ stderr' = stderr \o <<Msg("error", "writing", output),
                                      Msg("error", "failed to create output file", <<>>)>>
            /\ UNCHANGED <<fs, idx, written>>
       ELSE /\ fs' = [fs EXCEPT ![output] = TextFile(<<>>)]
            /\ written' = <<>>
            /\ idx' = 1
            /\ pc' = "loop"
            /\ UNCHANGED <<exitCode, stderr>>
    /\ UNCHANGED <<tool, run, fileList, argFiles, addHeaders, fs0, cands,
                   existing, reads, prevOut, listVars>>

\* concatenate_files, lines 25-43: one iteration of the loop.  The handle is
\* buffered: how much of what has been written has reached the file depends on
\* the amounts written and on the size of the buffer.  The file holds a prefix
\* of the text written, which only grows: nothing more than before, all of
\* it, or all but the last character.
ProcessFile ==
    /\ tool = "cat" /\ pc = "loop" /\ idx <= Len(existing)
    /\ LET file == existing[idx]
           rd   == IF IsFile(fs, file) THEN ReadFileContent(fs, file)
                   ELSE [ok |-> FALSE, text |-> <<>>]
           text == Chunk(file, rd, addHeaders)
       IN  /\ written' = written \o text
           /\ reads' = Append(reads, rd)
           /\ stderr' = stderr \o
                (IF IsFile(fs, file) THEN ReadMessages(fs, file)
                 ELSE <<Msg("warning", "does not exist, skipping", file)>>)
           /\ \E cut \in IF text = <<>> THEN {Len(fs[output].text)}
                          ELSE {Len(fs[output].text), Len(written') - 1, Len(written')} :
                fs' = [fs EXCEPT ![output] = TextFile(SubSeq(written', 1, cut))]
    /\ idx' = idx + 1
    /\ UNCHANGED <<tool, pc, exitCode, run, fileList, argFiles, addHeaders, fs0,
                   cands, existing, prevOut, listVars>>

\* concatenate_files, line 44 (the with block closes the handle, return True)
\* and main, lines 160-163
CloseOutput ==
    /\ tool = "cat" /\ pc = "loop" /\ idx > Len(existing)
    /\ fs' = [fs EXCEPT ![output] = TextFile(written)]
    /\ Finish(0)
    /\ UNCHANGED <<tool, run, stderr, fileList, argFiles, addHeaders, fs0, cands,
                   existing, idx, written, reads, prevOut, listVars>>

\* the same command line is run again on the filesystem the last run left
RerunCat ==
    /\ tool = "cat" /\ pc = "done" /\ run < MaxRuns
    /\ run' = run + 1
    /\ pc' = "start"
    /\ exitCode' = -1
    /\ stderr' = <<>>
    /\ prevOut' = fs[output]
    /\ fs0' = fs
    /\ cands' = <<>> /\ existing' = <<>> /\ idx' = 0
    /\ written' = <<>> /\ reads' = <<>>
    /\ UNCHANGED <<tool, fileList, argFiles, addHeaders, fs, listVars>>

NextCat == Resolve \/ Filter \/ OpenOutput \/ ProcessFile \/ CloseOutput \/ RerunCat

----------------------------------------------------------------------------
(* The directory listllm lists.  An entry is [path, kind]: path is the      *)
(* sequence of names from the directory down, kind is "file" (regular),     *)
(* "dir" or "other" (a FIFO, a socket, a dangling link).                    *)

Node(path, kind) == [path |-> path, kind |-> kind]

\* the name args.output has when it lies in the listed directory
OutName == <<"o">>

\* the order in which a directory hands out its entries (not sorted)
ListDirOrder ==
    << <<"t", "a">>, <<"s">>, OutName, <<".", "h">>, <<"a">>, <<".", "g">>,
       <<"t">>, <<"c">> >>

\* the entries list_files sees: the tree, and the output file when it lies in
\* the directory and exists
EffTree(T, arg, of) ==
    T \cup (IF arg = "inside" /\ of.kind # "none"
            THEN {Node(<<OutName>>, IF of.kind = "dir" THEN "dir" ELSE "file")}
            ELSE {})

\* the names in directory `root` of the given kinds, in directory order
Entries(T, root, kinds) ==
    LET In(name) == \E n \in T : n.path = Append(root, name) /\ n.kind \in kinds
    IN  SelectSeq(ListDirOrder, In)

RECURSIVE JoinSlash(_)
JoinSlash(names) ==
    IF names = <<>> THEN <<>>
    ELSE IF Len(names) = 1 THEN names[1]
    ELSE names[1] \o <<"/">> \o JoinSlash(Tail(names))

\* os.path.relpath(root, directory)
RelPath(root) == IF root = <<>> THEN <<".">> ELSE JoinSlash(root)

\* os.path.join(a, b), b relative
PathJoin(a, b) == a \o <<"/">> \o b

\* any(pattern in file for pattern in exclude_patterns)
Excluded(file, patterns) == \E i \in 1..Len(patterns) : Contains(file, patterns[i])

\* list_files, lines 35-41
RelOf(root, file) ==
    LET rel_path == PathJoin(RelPath(root), file)
    IN  IF StartsWith(rel_path, <<".", "/">>) THEN SubSeq(rel_path, 3, Len(rel_path))
        ELSE IF rel_path = <<".">> THEN file
        ELSE rel_path

\* list_files, lines 26-41: the files of one directory of the walk
RECURSIVE WalkFiles(_, _, _, _)
WalkFiles(root, files, patterns, hidden) ==
    IF files = <<>> THEN <<>>
    ELSE LET file == Head(files)
         IN  (IF ~hidden /\ StartsWith(file, <<".">>) THEN <<>>
              ELSE IF Excluded(file, patterns) THEN <<>>
              ELSE <<RelOf(root, file)>>)
             \o WalkFiles(root, Tail(files), patterns, hidden)

\* dirs[:] = [d for d in dirs if not d.startswith(".")]
PruneDirs(dirs, hidden) ==
    LET Keep(d) == hidden \/ ~StartsWith(d, <<".">>) IN SelectSeq(dirs, Keep)

\* list_files, lines 21-41: os.walk, top down
RECURSIVE Walk(_, _, _, _)
RECURSIVE WalkDirs(_, _, _, _, _)
Walk(T, root, patterns, hidden) ==
    WalkFiles(root, Entries(T, root, {"file", "other"}), patterns, hidden)
        \o WalkDirs(T, root, PruneDirs(Entries(T, root, {"dir"}), hidden),
                    patterns, hidden)
WalkDirs(T, root, dirs, patterns, hidden) ==
    IF dirs = <<>> THEN <<>>
    ELSE Walk(T, Append(root, Head(dirs)), patterns, hidden)
         \o WalkDirs(T, root, Tail(dirs), patterns, hidden)

\* (variant) the non-recursive listing keeps the subdirectories
RECURSIVE ListDirectKeepDirs(_, _, _, _)
ListDirectKeepDirs(T, items, patterns, hidden) ==
    IF items = <<>> THEN <<>>
    ELSE LET item == Head(items)
         IN  (IF ~hidden /\ StartsWith(item, <<".">>) THEN <<>>
              ELSE IF Excluded(item, patterns) THEN <<>>
              ELSE <<item>>)
             \o ListDirectKeepDirs(T, Tail(items), patterns, hidden)

\* list_files, lines 45-60: the non-recursive listing
RECURSIVE ListDirect(_, _, _, _)
ListDirect(T, items, patterns, hidden) ==
    IF items = <<>> THEN <<>>
    ELSE LET item == Head(items)
         IN  (IF \E n \in T : n.path = <<item>> /\ n.kind = "dir" THEN <<>>
              ELSE IF ~hidden /\ StartsWith(item, <<".">>) THEN <<>>
              ELSE IF Excluded(item, patterns) THEN <<>>
              ELSE <<item>>)
             \o ListDirect(T, Tail(items), patterns, hidden)

\* (variant) the result is returned in collection order
ListFilesUnsorted(T, rec, patterns, hidden) ==
    IF rec THEN Walk(T, <<>>, patterns, hidden)
    ELSE ListDirect(T, Entries(T, <<>>, {"file", "dir", "other"}), patterns, hidden)

\* list_files
ListFiles(T, rec, patterns, hidden) ==
    Sorted(IF rec THEN Walk(T, <<>>, patterns, hidden)
           ELSE ListDirect(T, Entries(T, <<>>, {"file", "dir", "other"}),
                           patterns, hidden))

\* (variant) the paths are written without line ends
RECURSIVE WriteListedFilesNoNewline(_)
WriteListedFilesNoNewline(files) ==
    IF files = <<>> THEN <<>>
    ELSE Head(files) \o WriteListedFilesNoNewline(Tail(files))

\* write_listed_files_to_file: out.write(f"{file_name}\n") for each
RECURSIVE WriteListedFiles(_)
WriteListedFiles(files) ==
    IF files = <<>> THEN <<>>
    ELSE Head(files) \o <<NL>> \o WriteListedFiles(Tail(files))

----------------------------------------------------------------------------
(* listllm: main() step by step *)

\* main, lines 106-109
CheckDirectory ==
    /\ tool = "list" /\ pc = "start"
    /\ IF ~dirValid
       THEN /\ Finish(1)
            /\ stderr' = Append(stderr, Msg("error", "directory does not exist", <<>>))
       ELSE /\ pc' = "list"
            /\ UNCHANGED <<exitCode, stderr>>
    /\ UNCHANGED <<tool, run, catVars, listVars>>

\* main, lines 111-117
CallListFiles ==
    /\ tool = "list" /\ pc = "list"
    /\ listed' = ListFiles(EffTree(tree, outArg, outFile), recursive, exclude,
                           includeHidden)
    /\ pc' = "emit"
    /\ UNCHANGED <<tool, exitCode, run, stderr, catVars, dirValid, recursive,
                   includeHidden, exclude, tree, outArg, outFile, stdout>>

\* main, lines 119-121
NoFilesFound ==
    /\ tool = "list" /\ pc = "emit" /\ listed = <<>>
    /\ Finish(0)
    /\ UNCHANGED <<tool, run, stderr, catVars, listVars>>

\* main, lines 124-126 and write_listed_files_to_file: a path that cannot be
\* opened for writing ends the process with status 1
WriteOutput ==
    /\ tool = "list" /\ pc = "emit" /\ listed # <<>> /\ outArg # "none"
    /\ IF outFile.kind = "dir"
       THEN /\ Finish(1)
            /\ stderr' = Append(stderr, Msg("error", "writing", OutName))
            /\ UNCHANGED outFile
       ELSE /\ Finish(0)
            /\ outFile' = TextFile(WriteListedFiles(listed))
            /\ UNCHANGED stderr
    /\ UNCHANGED <<tool, run, catVars, dirValid, recursive, includeHidden,
                   exclude, tree, outArg, listed, stdout>>

\* main, lines 127-131
PrintOutput ==
    /\ tool = "list" /\ pc = "emit" /\ listed # <<>> /\ outArg = "none"
    /\ stdout' = listed
    /\ Finish(0)
    /\ UNCHANGED <<tool, run, stderr, catVars, dirValid, recursive, includeHidden,
                   exclude, tree, outArg, outFile, listed>>

\* the same command line is run again on the filesystem the last run left
RerunList ==
    /\ tool = "list" /\ pc = "done" /\ run < MaxRuns
    /\ run' = run + 1
    /\ pc' = "start"
    /\ exitCode' = -1
    /\ stderr' = <<>>
    /\ prevOut' = outFile
    /\ listed' = <<>> /\ stdout' = <<>>
    /\ UNCHANGED <<tool, fileList, argFiles, addHeaders, fs, fs0, cands, existing,
                   idx, written, reads, dirValid, recursive, includeHidden,
                   exclude, tree, outArg, outFile>>

NextList ==
    CheckDirectory \/ CallListFiles \/ NoFilesFound \/ WriteOutput \/ PrintOutput
        \/ RerunList

----------------------------------------------------------------------------
(* Initial states *)

ListIdle ==
    /\ dirValid = FALSE /\ recursive = FALSE /\ includeHidden = FALSE
    /\ exclude = <<>> /\ tree = {} /\ outArg = "none" /\ outFile = NoFile
    /\ listed = <<>> /\ stdout = <<>>

NoListFile == [given |-> FALSE, found |-> FALSE, text |-> <<>>]

InitCatWith(FileLists, ArgChoices, Filesystems, Hdrs) ==
    /\ tool = "cat" /\ pc = "start" /\ exitCode = -1 /\ run = 1
    /\ stderr = <<>>
    /\ fileList \in FileLists
    /\ argFiles \in SeqsUpTo(ArgChoices, MaxArgs)
    /\ addHeaders \in Hdrs
    /\ fs \in Filesystems
    /\ fs0 = fs
    /\ cands = <<>> /\ existing = <<>> /\ idx = 0
    /\ written = <<>> /\ reads = <<>>
    /\ prevOut = fs[output]
    /\ ListIdle

\* the files of the concatenation runs
CatFilesystems ==
    { [p \in Paths |->
          IF p = PathA THEN a ELSE IF p = PathB THEN b ELSE o] :
        a \in {NoFile, Dir, Binary, TextFile(<<>>), TextFile(<<"h">>),
               TextFile(<<"w", NL>>)},
        b \in {NoFile, Denied, TextFile(<<"h">>), TextFile(<<"w", NL>>)},
        o \in {NoFile, Dir, TextFile(<<"o">>)} }

InitCat ==
    InitCatWith({NoListFile}, {PathA, PathB, output, <<"*">>}, CatFilesystems,
                BOOLEAN)

\* the inputs of the resolution runs: every short list file, present or not
ResolveFilesystem ==
    [p \in Paths |-> IF p = PathA THEN TextFile(<<"h">>)
                     ELSE IF p = PathB THEN TextFile(<<"w", NL>>) ELSE NoFile]

ListFileChars == {" ", "#", "a", NL}

InitResolve ==
    InitCatWith(
        {NoListFile, [given |-> TRUE, found |-> FALSE, text |-> <<>>]}
            \cup {[given |-> TRUE, found |-> TRUE, text |-> t] :
                    t \in SeqsUpTo(ListFileChars, MaxListLen)},
        {PathA, PathB, <<"?">>}, {ResolveFilesystem}, {FALSE})

CatIdle ==
    /\ fileList = NoListFile /\ argFiles = <<>> /\ addHeaders = FALSE
    /\ fs = [p \in Paths |-> NoFile] /\ fs0 = fs
    /\ cands = <<>> /\ existing = <<>> /\ idx = 0
    /\ written = <<>> /\ reads = <<>>

\* the entries a listed directory may hold
Universe ==
    { Node(<< <<"t", "a">> >>, "file"), Node(<< <<"a">> >>, "other"),
      Node(<< <<".", "h">> >>, "file"),
      Node(<< <<"s">> >>, "dir"), Node(<< <<".", "g">> >>, "dir"),
      Node(<< <<"s">>, <<"a">> >>, "file"), Node(<< <<"s">>, <<".", "h">> >>, "file"),
      Node(<< <<"s">>, <<"t">> >>, "dir"),
      Node(<< <<"s">>, <<"t">>, <<"a">> >>, "file"),
      Node(<< <<".", "g">>, <<"c">> >>, "file") }

\* every entry lies in a directory of the tree
Trees ==
    { T \in SUBSET Universe :
        \A n \in T : Len(n.path) > 1 =>
            Node(SubSeq(n.path, 1, Len(n.path) - 1), "dir") \in T }

ExcludeChoices == {<<"a">>, <<"s">>}

InitList ==
    /\ tool = "list" /\ pc = "start" /\ exitCode = -1 /\ run = 1
    /\ stderr = <<>>
    /\ dirValid \in BOOLEAN
    /\ recursive \in BOOLEAN
    /\ includeHidden \in BOOLEAN
    /\ exclude \in SeqsUpTo(ExcludeChoices, MaxExclude)
    /\ tree \in Trees
    /\ outArg \in {"none", "inside", "outside"}
    /\ outFile \in {NoFile, Dir, TextFile(<<"o">>)}
    /\ outArg = "none" => outFile = NoFile
    /\ ~dirValid => /\ tree = {} /\ ~recursive /\ ~includeHidden
                    /\ exclude = <<>> /\ outArg = "outside"
    /\ listed = <<>> /\ stdout = <<>>
    /\ prevOut = outFile
    /\ CatIdle

SpecCat == InitCat /\ [][NextCat]_vars

SpecResolve == InitResolve /\ [][NextCat]_vars


SpecList == InitList /\ [][NextList]_vars

Init == InitCat \/ InitList

Next == NextCat \/ NextList

Spec == Init /\ [][Next]_vars

----------------------------------------------------------------------------
(* Properties.  Their vocabulary is stated apart from the functions above.  *)

Line(t) == Append(t, NL)

\* a content, followed by one newline when it is non-empty and lacks one
Norm(c) == IF c = <<>> \/ c[Len(c)] = NL THEN c ELSE Append(c, NL)

IsPrefix(a, b) == Len(a) <= Len(b) /\ SubSeq(b, 1, Len(a)) = a

Unreadable(f, p) == f[p].kind \in {"binary", "denied"}

CatSuccess == tool = "cat" /\ pc = "done" /\ exitCode = 0

\* the three lines the spec gives a header block
ThreeLines(p) ==
    Line(Rep("=", 80)) \o Line(<<"F", "I", "L", "E", ":", " ">> \o p)
        \o Line(Rep("-", Len(p) + 6))

\* the candidates of the current run, before de-duplication
Cand0 == Range(Collected(fileList, argFiles, fs0))

RECURSIVE EveryContent(_, _)
EveryContent(files, hdr) ==
    IF files = <<>> THEN <<>>
    ELSE (IF hdr THEN ThreeLines(Head(files)) ELSE <<>>)
         \o Norm(fs0[Head(files)].text) \o EveryContent(Tail(files), hdr)

RECURSIVE ReadableContent(_, _)
ReadableContent(files, hdr) ==
    IF files = <<>> THEN <<>>
    ELSE (IF fs0[Head(files)].kind = "text"
          THEN (IF hdr THEN Line(<<>>) \o ThreeLines(Head(files)) ELSE <<>>)
               \o Norm(fs0[Head(files)].text)
          ELSE <<>>)
         \o ReadableContent(Tail(files), hdr)

\* C1 as stated: with headers disabled the output of a successful run is the
\* concatenation, in order, of the newline-normalised content of every
\* surviving input file.
C1_Original ==
    (CatSuccess /\ ~addHeaders) => fs[output].text = EveryContent(existing, FALSE)

\* C1, amended: with headers disabled and the output file not among the
\* surviving inputs, the output of a successful run is the concatenation, in
\* resolved order, of the newline-normalised content of each input that can be
\* read as text; an input that cannot contributes nothing; nothing else is
\* written.
C1_Concatenation ==
    (CatSuccess /\ ~addHeaders /\ output \notin Range(existing))
        => fs[output] = TextFile(ReadableContent(existing, FALSE))

C1_Witness ==
    /\ CatSuccess /\ ~addHeaders
    /\ existing = <<PathA, PathB>>
    /\ fs0[PathA] = TextFile(<<"h">>) /\ fs0[PathB] = TextFile(<<"w", NL>>)
    /\ fs[output].text = <<"h", NL, "w", NL>>

\* C2 as stated: with headers enabled the output consists, for every surviving
\* input, of exactly three lines (80 '=', 'FILE: <path>', len(path) + 6
\* dashes) followed by the file's normalised content.
C2_Original ==
    (CatSuccess /\ addHeaders) => fs[output].text = EveryContent(existing, TRUE)

\* C2, amended: with headers enabled and the output file not among the
\* surviving inputs, the output consists, for every input that can be read as
\* text, in order, of an empty line, the three header lines, and the file's
\* normalised content; an input that cannot be read as text gets no block.
C2_HeaderBlocks ==
    (CatSuccess /\ addHeaders /\ output \notin Range(existing))
        => fs[output] = TextFile(ReadableContent(existing, TRUE))

C2_Witness ==
    /\ CatSuccess /\ addHeaders
    /\ existing = <<PathA, PathB>>
    /\ fs0[PathA] = TextFile(<<"h">>) /\ fs0[PathB] = TextFile(<<"w", NL>>)
    /\ Len(fs[output].text) = 202

\* C4 as stated: when no candidate is a regular file that can be read, the run
\* exits with status 1 and leaves the filesystem as it was.
C4_Original ==
    (tool = "cat" /\ pc = "done" /\ \A p \in Cand0 : fs0[p].kind # "text")
        => /\ exitCode = 1
           /\ fs = fs0
           /\ stderr # <<>> /\ stderr[Len(stderr)].level = "error"

\* C4, amended: when no candidate is an existing regular file, the run
\* reports an error, exits with status 1, and the output file is neither
\* created nor modified.
C4_NoRegularFile ==
    (tool = "cat" /\ pc = "done" /\ \A p \in Cand0 : ~IsFile(fs0, p))
        => /\ exitCode = 1
           /\ fs = fs0
           /\ stderr # <<>> /\ stderr[Len(stderr)].level = "error"

C4_Witness ==
    /\ tool = "cat" /\ pc = "done" /\ exitCode = 1
    /\ argFiles = <<PathB, <<"*">> >>
    /\ fs0[PathA] = Dir /\ fs0[PathB] = NoFile /\ fs0[output] = NoFile
    /\ cands = <<PathB, PathA>>
    /\ fs = fs0

\* C9 as stated: with headers enabled, the header block of an input that
\* cannot be decoded stays in the output, without a body.
C9_Original ==
    (CatSuccess /\ addHeaders)
        => \A i \in 1..Len(existing) :
              (existing[i] # output /\ Unreadable(fs0, existing[i]))
                  => Contains(fs[output].text, ThreeLines(existing[i]))

\* C9, amended: with headers enabled, an input that exists but cannot be
\* decoded is reported on standard error and leaves nothing in the output,
\* neither content nor header line;
\* the loop goes on to the files after it and the run ends with status 0.
C9_NoOrphanHeader ==
    (tool = "cat" /\ pc = "done" /\ addHeaders /\ existing # <<>>
        /\ fs0[output].kind # "dir")
        => /\ exitCode = 0
           /\ Len(reads) = Len(existing)
           /\ \A i \in 1..Len(existing) :
                 (existing[i] # output /\ Unreadable(fs0, existing[i]))
                     => /\ ~reads[i].ok
                        /\ \E k \in 1..Len(stderr) : stderr[k].path = existing[i]
                        /\ ~Contains(fs[output].text,
                               Line(<<"F", "I", "L", "E", ":", " ">> \o existing[i]))

C9_Witness ==
    /\ CatSuccess /\ addHeaders
    /\ existing = <<PathA, PathB>>
    /\ fs0[PathA] = Binary /\ fs0[PathB] = TextFile(<<"h">>)
    /\ Len(fs[output].text) = 102

\* the text the iterations before the i-th wrote
BlockOf(p, rd) ==
    IF rd.ok THEN (IF addHeaders THEN Line(<<>>) \o ThreeLines(p) ELSE <<>>)
                  \o Norm(rd.text)
    ELSE <<>>

WrittenBefore(i) == Flatten([j \in 1..(i - 1) |-> BlockOf(existing[j], reads[j])])

\* C10 as stated: an input that is the output path is read as empty content.
C10_Original ==
    CatSuccess
        => \A i \in 1..Len(existing) :
              existing[i] = output => (reads[i].ok /\ reads[i].text = <<>>)

\* C10, amended: nothing is written before the existence filter has run; the
\* output is then truncated, and the inputs are read one by one after that.
\* An input other than the output path gives the content it had when the run
\* started.  The output path, when it is an input, has lost its content: it
\* gives the part of this run's own output that has reached the file by then
\* (nothing for the first input, in general a prefix of what was written).
\* The run ends with status 0.
C10_Order ==
    tool = "cat" =>
        /\ pc \in {"start", "filter", "open"} => fs = fs0
        /\ pc = "loop" =>
              /\ existing # <<>>
              /\ \A i \in 1..Len(existing) : IsFile(fs0, existing[i])
              /\ fs[output].kind = "text"
              /\ idx = 1 => fs[output].text = <<>>
        /\ \A i \in 1..Len(reads) :
              IF existing[i] = output
              THEN IsPrefix(reads[i].text, WrittenBefore(i))
              ELSE /\ reads[i].ok = (fs0[existing[i]].kind = "text")
                   /\ reads[i].ok => reads[i].text = fs0[existing[i]].text
        /\ (pc = "done" /\ output \in Range(existing))
              => /\ exitCode = 0
                 /\ fs[output].text = WrittenBefore(Len(existing) + 1)

C10_Witness ==
    /\ CatSuccess
    /\ existing = <<PathA, output>>
    /\ fs0[output] = TextFile(<<"o">>)
    /\ reads[2].text = <<"h">>
    /\ fs[output].text = <<"h", NL, "h", NL>>

\* the output file of the running tool
OutNow == IF tool = "cat" THEN fs[output] ELSE outFile

\* C8 as stated: a second run with the same arguments leaves the output file
\* as the first run left it.
C8_Original ==
    (pc = "done" /\ run >= 2 /\ (tool = "list" => outArg # "none"))
        => OutNow = prevOut

\* C8, amended: a second run with the same arguments leaves the output file as
\* the first run left it, provided the output file is not one of the files the
\* run itself takes as input (a candidate of the Concatenator, a file the
\* Lister returns).
C8_Idempotent ==
    (/\ pc = "done" /\ run >= 2
     /\ tool = "cat" => output \notin Cand0
     /\ tool = "list" => (outArg # "none"
                           /\ ~(outArg = "inside" /\ OutName \in Range(listed))))
        => OutNow = prevOut

C8_Witness ==
    /\ CatSuccess /\ run = 2 /\ addHeaders
    /\ output \notin Cand0
    /\ existing = <<PathB, PathA>>
    /\ fs[output].text # <<>>
    /\ fs[output] = prevOut

----------------------------------------------------------------------------
(* Input resolution *)

IsBlank(l) == \A k \in 1..Len(l) : IsSpace(l[k])

\* the first character that is not whitespace is '#'
IsComment(l) ==
    \E k \in 1..Len(l) : l[k] = "#" /\ \A j \in 1..(k - 1) : IsSpace(l[j])

\* the line from its first to its last character that is not whitespace
Trimmed(l) ==
    LET ks == {k \in 1..Len(l) : ~IsSpace(l[k])}
        lo == CHOOSE k \in ks : \A j \in ks : k <= j
        hi == CHOOSE k \in ks : \A j \in ks : k >= j
    IN  SubSeq(l, lo, hi)

\* the paths the list file gives, in its order
ListPart ==
    LET Keep(l) == ~IsBlank(l) /\ ~IsComment(l)
        kept == SelectSeq(FileLines(fileList.text, <<>>), Keep)
    IN  [i \in 1..Len(kept) |-> Trimmed(kept[i])]

\* the command-line entries in argument order, a pattern replaced by its matches
ArgPart ==
    Flatten([i \in 1..Len(argFiles) |->
                IF HasWildcard(argFiles[i]) THEN Glob(fs0, argFiles[i])
                ELSE <<argFiles[i]>>])

Candidates == (IF fileList.given THEN ListPart ELSE <<>>) \o ArgPart

FirstIndex(R, x) == CHOOSE i \in 1..Len(R) : R[i] = x /\ \A j \in 1..(i - 1) : R[j] # x

\* C3: once the inputs are resolved, the files to concatenate are the paths of
\* the list file (in its order, blank and '#' lines dropped, the others
\* trimmed) followed by the command-line entries (patterns replaced by their
\* matches), each distinct path exactly once, in the order of first occurrence.
C3_Resolution ==
    (tool = "cat" /\ pc # "start" /\ (fileList.given => fileList.found))
        => LET R == Candidates
           IN  /\ Range(cands) = Range(R)
               /\ \A i, j \in 1..Len(cands) :
                     i < j => /\ cands[i] # cands[j]
                              /\ FirstIndex(R, cands[i]) < FirstIndex(R, cands[j])

C3_Witness ==
    /\ tool = "cat" /\ pc = "filter"
    /\ fileList.given /\ fileList.text = <<"#", NL, "a">>
    /\ argFiles = <<PathB, <<"?">> >>
    /\ Candidates = <<PathA, PathB, PathA>>
    /\ cands = <<PathA, PathB>>

----------------------------------------------------------------------------
(* The Lister *)

IsHidden(name) == name # <<>> /\ name[1] = "."

\* the names of a path, with '/' between them
Relative(path) ==
    Flatten([i \in 1..(2 * Len(path) - 1) |->
                IF i % 2 = 1 THEN path[(i + 1) \div 2] ELSE <<"/">>])

IsSortedStrict(l) == \A i \in 1..(Len(l) - 1) : StrLess(l[i], l[i + 1])

\* the directory as list_files finds it
Seen == EffTree(tree, outArg, outFile)

NotExcluded(name) == \A i \in 1..Len(exclude) : ~Contains(name, exclude[i])

\* C5: in recursive mode the list holds exactly the non-directory entries, at
\* every depth, that (unless hidden entries are included) have no '.' at the
\* start of their name or of the name of a directory above them, and whose own
\* name contains no exclusion substring; each as its path relative to the
\* directory, the whole sorted as strings.
C5_Recursive ==
    (tool = "list" /\ pc = "emit" /\ recursive)
        => /\ Range(listed) =
                { Relative(n.path) :
                    n \in { m \in Seen :
                              /\ m.kind # "dir"
                              /\ includeHidden
                                   \/ \A k \in 1..Len(m.path) : ~IsHidden(m.path[k])
                              /\ NotExcluded(m.path[Len(m.path)]) } }
           /\ IsSortedStrict(listed)

C5_Witness ==
    /\ tool = "list" /\ pc = "emit" /\ recursive /\ ~includeHidden
    /\ exclude = <<>>
    /\ Node(<< <<".", "g">>, <<"c">> >>, "file") \in tree
    /\ Node(<< <<"s">>, <<".", "h">> >>, "file") \in tree
    /\ listed = << <<"s", "/", "a">>, <<"s", "/", "t", "/", "a">>, <<"t", "a">> >>

\* C6 as stated: in non-recursive mode every returned name is a regular file
\* that lies directly in the directory.
C6_Original ==
    (tool = "list" /\ pc = "emit" /\ ~recursive)
        => \A x \in Range(listed) : Node(<<x>>, "file") \in Seen

\* C6, amended: in non-recursive mode the list holds exactly the names of the
\* direct children that are not directories (regular files and any other
\* non-directory entry), without the names that start with '.' unless hidden
\* entries are included and without the names that contain an exclusion
\* substring, sorted as strings.
C6_NonRecursive ==
    (tool = "list" /\ pc = "emit" /\ ~recursive)
        => /\ Range(listed) =
                { n.path[1] :
                    n \in { m \in Seen :
                              /\ Len(m.path) = 1
                              /\ m.kind # "dir"
                              /\ includeHidden \/ ~IsHidden(m.path[1])
                              /\ NotExcluded(m.path[1]) } }
           /\ IsSortedStrict(listed)

C6_Witness ==
    /\ tool = "list" /\ pc = "emit" /\ ~recursive /\ ~includeHidden
    /\ exclude = << <<"s">> >>
    /\ Node(<< <<"s">>, <<"a">> >>, "file") \in tree
    /\ Node(<< <<".", "h">> >>, "file") \in tree
    /\ listed = << <<"a">>, <<"t", "a">> >>

\* the lines of a text, without their line ends
RECURSIVE LinesOf(_, _)
LinesOf(text, cur) ==
    IF text = <<>> THEN (IF cur = <<>> THEN <<>> ELSE <<cur>>)
    ELSE IF Head(text) = NL THEN <<cur>> \o LinesOf(Tail(text), <<>>)
    ELSE LinesOf(Tail(text), Append(cur, Head(text)))

HoldsList(file, paths) ==
    /\ file.kind = "text"
    /\ file.text = <<>> \/ file.text[Len(file.text)] = NL
    /\ LinesOf(file.text, <<>>) = paths

\* C7 as stated: with an output path and a valid directory, whatever the
\* number of files found, the output file holds the returned list, one path
\* per line, and the status is 0.
C7_Original ==
    (tool = "list" /\ pc = "done" /\ dirValid /\ outArg # "none")
        => (HoldsList(outFile, listed) /\ exitCode = 0)

\* C7, amended: with an output path and a valid directory, when at least one
\* file is found and the output path can be opened for writing, the output
\* file holds exactly the returned list, one path per line, each line ended by
\* a newline, in place of what it held, and the status is 0.  When no file is
\* found the output file is neither created nor modified and the status is 0;
\* when the output path cannot be opened the status is 1.
C7_OutputFile ==
    (tool = "list" /\ pc = "done" /\ dirValid /\ outArg # "none")
        => IF listed # <<>> /\ prevOut.kind # "dir"
           THEN HoldsList(outFile, listed) /\ exitCode = 0
           ELSE outFile = prevOut /\ exitCode = (IF listed = <<>> THEN 0 ELSE 1)

C7_Witness ==
    /\ tool = "list" /\ pc = "done" /\ dirValid /\ outArg = "outside"
    /\ exitCode = 0
    /\ prevOut = TextFile(<<"o">>)
    /\ listed = << <<"s", "/", "a">>, <<"t", "a">> >>
    /\ outFile.text = <<"s", "/", "a", NL, "t", "a", NL>>

====
